---- MODULE Spec2Model ----
(***************************************************************************)
(* Priority-based audio playback controller of flag_quest_v2               *)
(* (src/src/library/audioControlUtility.ts, hook useAudioControl).         *)
(*                                                                         *)
(* The controller runs on one event loop.  A step of the model is one      *)
(* synchronous run of controller code: an exported call up to its first    *)
(* await, the continuation of a suspended call, or a media/document event  *)
(* handler.  Media elements follow the HTML media element rules: play()    *)
(* clears paused at once and settles its promise later, pause() sets       *)
(* paused, "ended" is fired by a queued task only if playback is still at  *)
(* the end, and a looping element seeks back to the start instead.         *)
(* The loadedmetadata/timeupdate/play/pause listeners installed by         *)
(* configureAudio are run in the step that causes the event.               *)
(***************************************************************************)
EXTENDS Integers, Sequences, FiniteSets, Bags, TLC

(* ---------------------------- bounds ---------------------------------- *)
\* longest priority queue explored
MaxQueue == 2
\* most calls suspended at an await at the same time
MaxPending == 2
\* most exported calls in one run
MaxCalls == 3
\* most playAudio calls in one run of the effects alone
MaxSfxCalls == 4
\* most exported calls in one run of playing and cleaning up
MaxMetadataCalls == 3
\* most calls in one run of the effects with cleanup
MaxCleanupCalls == 4
\* most calls in one run of the background music alone
MaxBgCalls == 4
\* most calls in one run with null handles and a failing device
MaxFaultCalls == 3
\* most calls in one run of overlapping background music calls
MaxOverlapCalls == 3
\* calls in one run that ends with the teardown
MaxTeardownCalls == 3
\* most calls in one run of the music with volumes in and out of range
MaxMusicCalls == 3
\* most calls in one run with the ducking switch
MaxDuckingCalls == 4
\* most calls in one run of the effects with volumes in and out of range
MaxVolumeCalls == 3

(* --------------------------- constants -------------------------------- *)
\* binary64 numbers, as JavaScript's number type: value = (-1)^s * m * 2^(e - 52)
\* with the sign bit s and the 53-bit significand m written in four base-2^14
\* digits, most significant first (the digits keep every product below 2^31).
\* Volumes are never infinite, subnormal or NaN here, so those encodings are
\* left out; zero has the exponent of IEEE's biased exponent 0.
Limb == 16384
Double(e, m) == [s |-> 0, e |-> e, m |-> m]
Zero == Double(-1023, <<0, 0, 0, 0>>)
One == Double(0, <<1024, 0, 0, 0>>)

\* -x for x > 0
Minus(x) == [x EXCEPT !.s = 1]

\* |x| < |y|
LessMagnitude(x, y) ==
  \/ x.e < y.e
  \/ /\ x.e = y.e
     /\ \E i \in 1..4 : x.m[i] < y.m[i] /\ \A j \in 1..(i - 1) : x.m[j] = y.m[j]

\* x < y on the binary64 numbers
Less(x, y) ==
  IF x.s # y.s THEN x.s = 1
  ELSE IF x.s = 0 THEN LessMagnitude(x, y) ELSE LessMagnitude(y, x)

\* x * y of JavaScript for x, y >= 0 (a volume is clamped before it is
\* multiplied): the exact product rounded to the nearest binary64 number,
\* ties to the even significand
Times(x, y) ==
  LET a0 == x.m[4]  a1 == x.m[3]  a2 == x.m[2]  a3 == x.m[1]
      b0 == y.m[4]  b1 == y.m[3]  b2 == y.m[2]  b3 == y.m[1]
      \* the exact 106-bit product, digit by digit
      t0 == a0 * b0
      t1 == a0 * b1 + a1 * b0 + t0 \div Limb
      t2 == a0 * b2 + a1 * b1 + a2 * b0 + t1 \div Limb
      t3 == a0 * b3 + a1 * b2 + a2 * b1 + a3 * b0 + t2 \div Limb
      t4 == a1 * b3 + a2 * b2 + a3 * b1 + t3 \div Limb
      t5 == a2 * b3 + a3 * b2 + t4 \div Limb
      t6 == a3 * b3 + t5 \div Limb
      p3 == t3 % Limb  p4 == t4 % Limb  p5 == t5 % Limb
      p6 == t6 % Limb  p7 == t6 \div Limb
      \* the product is in [2^104, 2^106): 53 bits are dropped at and above
      \* 2^105, 52 below
      carry == p7 >= 128
      k == IF carry THEN 2048 ELSE 1024
      up == Limb \div k
      q0 == p3 \div k + (p4 % k) * up
      q1 == p4 \div k + (p5 % k) * up
      q2 == p5 \div k + (p6 % k) * up
      q3 == p6 \div k + (p7 % k) * up
      rest == p3 % k
      sticky == (t2 % Limb) + (t1 % Limb) + (t0 % Limb) > 0
      roundUp == \/ 2 * rest > k
                 \/ 2 * rest = k /\ (sticky \/ q0 % 2 = 1)
      n0 == q0 + (IF roundUp THEN 1 ELSE 0)
      n1 == q1 + n0 \div Limb
      n2 == q2 + n1 \div Limb
      n3 == q3 + n2 \div Limb
      e == x.e + y.e + (IF carry THEN 1 ELSE 0)
  IN IF x = Zero \/ y = Zero THEN Zero
     ELSE IF n3 = 2048 THEN Double(e + 1, <<1024, 0, 0, 0>>)
     ELSE Double(e, <<n3, n2 % Limb, n1 % Limb, n0 % Limb>>)
\* mutant of Fl02: the binary64 number below 0.2
Fl02Down == Double(-3, <<1638, 6553, 9830, 6553>>)

\* the literal 0.2 of duckBackgroundMusic and setBackgroundMusicVolume
Fl02 == Double(-3, <<1638, 6553, 9830, 6554>>)

\* length of every media resource in playback ticks
Duration == 2

SfxHandles == {"A", "B"}
MusicHandles == {"M"}
Handles == SfxHandles \cup MusicHandles
\* a ref whose .current is null
NoHandle == "null"
\* audioMetadataRef.current.duration not set
NoDuration == -1
\* element.onended not set
NoHandler == [set |-> FALSE, priority |-> FALSE, visibility |-> FALSE, queued |-> FALSE]

\* volume 0.8, in range
Volume08 == Double(-1, <<1638, 6553, 9830, 6554>>)
\* volume 2.0, above the range
Volume2 == Double(1, <<1024, 0, 0, 0>>)
\* volume 0.5, in range
Volume05 == Double(-1, <<1024, 0, 0, 0>>)
\* volume -0.5, below the range
VolumeMinus05 == Minus(Double(-1, <<1024, 0, 0, 0>>))

\* the fields of AudioControlOptions the controller reads: every combination
\* of the four flags at volume 1 without loop
AudioControlOptions ==
  [stopPrevious : BOOLEAN, volume : {One}, loop : {FALSE},
   priority : BOOLEAN, ignorePriority : BOOLEAN, queueIfBlocked : BOOLEAN]

VARIABLES
  audio,             \* the media elements: handle -> element state
  previousAudioRef,  \* last played non-priority audio
  priorityAudioRef,  \* currently playing priority audio
  bgMusicRef,        \* BackgroundMusicState
  audioMetadataRef,  \* AudioMetadata
  priorityQueueRef,  \* queue of blocked requests
  staleVisibility,   \* handles with a visibilitychange listener of a replaced closure (priority false)
  pendingPlay,       \* playAudio calls suspended at await audioContext.resume()
  pendingBg,         \* playBackgroundMusic calls suspended at await playPromise
  ret,               \* what playAudio returned in this step: "true", "false",
                     \* "pending" (suspended), "none" (another step);
                     \* "throws" would be an error that reaches the caller
  calls              \* number of exported calls made so far

vars == <<audio, previousAudioRef, priorityAudioRef, bgMusicRef, audioMetadataRef,
          priorityQueueRef, staleVisibility, pendingPlay, pendingBg, ret, calls>>

(* ------------------- the media element (HTMLAudioElement) ------------- *)
\* mutant of Clamp: Math.min(1, volume), the lower limit is lost
ClampUpper(volume) == IF Less(One, volume) THEN One ELSE volume

\* Math.max(0, Math.min(1, volume))
Clamp(volume) == IF Less(volume, Zero) THEN Zero ELSE IF Less(One, volume) THEN One ELSE volume

\* x * 0.2
Times02(x) == Times(x, Fl02)

\* the audio element is audible: started, not paused, not at its end
Audible(a, h) == ~a[h].paused /\ a[h].currentTime < Duration

\* The state a synchronous run threads through its statements: the elements,
\* the metadata written by the elements' listeners, the suspended
\* playBackgroundMusic calls (pause() rejects a pending play promise).
World == [audio |-> audio, meta |-> audioMetadataRef, bg |-> pendingBg]

\* element.pause(): sets paused, fires "pause" if it was playing, rejects the
\* pending play promises of the element with AbortError
ElementPause(w, h) ==
  [w EXCEPT !.audio[h].paused = TRUE,
            !.meta.isPlaying = IF w.audio[h].listeners /\ ~w.audio[h].paused THEN FALSE ELSE @,
            !.bg = {IF c.audioRef = h THEN [c EXCEPT !.aborted = TRUE] ELSE c : c \in w.bg}]

\* element.currentTime = t: seeks, fires "timeupdate"
ElementSeek(w, h, t) ==
  [w EXCEPT !.audio[h].currentTime = t,
            !.meta.currentTime = IF w.audio[h].listeners THEN t ELSE @]

\* element.play() that the device accepts: restarts an ended element, clears
\* paused and fires "play" if it was paused
ElementPlay(w, h) ==
  LET w1 == IF w.audio[h].currentTime = Duration
            THEN ElementSeek(w, h, 0) ELSE w
  IN [w1 EXCEPT !.audio[h].paused = FALSE,
                !.meta.isPlaying = IF w1.audio[h].listeners /\ w1.audio[h].paused THEN TRUE ELSE @]

(* ----------------------------- helpers -------------------------------- *)
\* cleanupEventListeners removes a fresh arrow function, which was never
\* registered: no listener is removed
cleanupEventListeners(w, h) == w

\* mutant of hasPriorityAudioIn: the position is not compared with the duration
hasPriorityAudioNotPaused(a, slot) ==
  /\ slot # NoHandle
  /\ ~a[slot].paused

hasPriorityAudioIn(a, slot) ==
  /\ slot # NoHandle
  /\ ~a[slot].paused
  /\ a[slot].currentTime < Duration

hasPriorityAudio == hasPriorityAudioIn(audio, priorityAudioRef)

\* mutant of stopAudio: the element is rewound but not paused
stopAudioSeeksOnly(w, h) ==
  IF h = NoHandle THEN w
  ELSE cleanupEventListeners(ElementSeek(w, h, 0), h)

stopAudio(w, h) ==
  IF h = NoHandle THEN w
  ELSE cleanupEventListeners(ElementSeek(ElementPause(w, h), h, 0), h)

\* the new background state and the world after duckBackgroundMusic()
duckBackgroundMusic(w, bgm) ==
  IF bgm.audioRef # NoHandle /\ bgm.isPlaying /\ bgm.enableDucking
  THEN [w   |-> [w EXCEPT !.audio[bgm.audioRef].volume = Times02(bgm.volume)],
        bgm |-> [bgm EXCEPT !.originalVolume = bgm.volume]]
  ELSE [w |-> w, bgm |-> bgm]

\* mutant of restoreBackgroundMusic: the volume is not restored
restoreBackgroundMusicNever(w, bgm) == w

restoreBackgroundMusic(w, bgm) ==
  IF bgm.audioRef # NoHandle /\ bgm.isPlaying /\ bgm.enableDucking
  THEN [w EXCEPT !.audio[bgm.audioRef].volume = bgm.originalVolume]
  ELSE w

\* configureAudio: the four metadata listeners are added (preload and
\* playbackRate do not influence the controller)
configureAudio(w, h) ==
  LET w1 == cleanupEventListeners(w, h)
  IN [w1 EXCEPT !.audio[h].listeners = TRUE]

Commit(w) ==
  /\ audio' = w.audio
  /\ audioMetadataRef' = w.meta
  /\ pendingBg' = w.bg

(* ------------------------------ playAudio ------------------------------ *)
\* lines 312-344: the call up to await audioContext.resume().  A blocked
\* request is queued or dropped and the call returns false; an admitted one
\* is suspended.
\* the suspended call keeps what its continuation reads; queued records
\* that the call was made by a completion handler for a queued request
Suspended(h, options, queued) ==
  [audioRef |-> h, queued |-> queued,
   options |-> [stopPrevious |-> options.stopPrevious, volume |-> options.volume,
                loop |-> options.loop, priority |-> options.priority]]

\* mutant of Admit: the call is made twice
AdmitTwice(h, options, queued) ==
  pendingPlay (+) SetToBag({Suspended(h, options, queued)})
              (+) SetToBag({Suspended(h, options, queued)})

Admit(h, options, queued) ==
  pendingPlay (+) SetToBag({Suspended(h, options, queued)})

\* mutant of Blocked: the negation of priority is lost
BlockedPriorityOnly(options, a, slot) ==
  ~options.ignorePriority /\ hasPriorityAudioIn(a, slot) /\ options.priority

\* mutant of Blocked: ignorePriority is not consulted
BlockedDespiteIgnore(options, a, slot) ==
  hasPriorityAudioIn(a, slot) /\ ~options.priority

\* line 330: the request is blocked by the priority system
Blocked(options, a, slot) ==
  ~options.ignorePriority /\ hasPriorityAudioIn(a, slot) /\ ~options.priority

\* mutant of playAudio: a blocked request is put at the head of the queue
playAudioQueuesFront(h, options) ==
  /\ IF h = NoHandle
     THEN /\ ret' = "false"
          /\ UNCHANGED <<priorityQueueRef, pendingPlay>>
     ELSE IF Blocked(options, audio, priorityAudioRef)
     THEN /\ options.queueIfBlocked => Len(priorityQueueRef) < MaxQueue
          /\ priorityQueueRef' =
               IF options.queueIfBlocked
               THEN <<[audioRef |-> h, options |-> options]>> \o priorityQueueRef
               ELSE priorityQueueRef
          /\ ret' = "false"
          /\ UNCHANGED pendingPlay
     ELSE /\ BagCardinality(pendingPlay) + Cardinality(pendingBg) < MaxPending
          /\ pendingPlay' = Admit(h, options, FALSE)
          /\ ret' = "pending"
          /\ UNCHANGED priorityQueueRef
  /\ UNCHANGED <<audio, previousAudioRef, priorityAudioRef, bgMusicRef,
                 audioMetadataRef, staleVisibility, pendingBg>>

\* mutant of playAudio: the handle is not checked at line 317
playAudioUnchecked(h, options) ==
  /\ IF Blocked(options, audio, priorityAudioRef)
     THEN /\ options.queueIfBlocked => Len(priorityQueueRef) < MaxQueue
          /\ priorityQueueRef' =
               IF options.queueIfBlocked
               THEN Append(priorityQueueRef, [audioRef |-> h, options |-> options])
               ELSE priorityQueueRef
          /\ ret' = "false"
          /\ UNCHANGED pendingPlay
     ELSE /\ BagCardinality(pendingPlay) + Cardinality(pendingBg) < MaxPending
          /\ pendingPlay' = Admit(h, options, FALSE)
          /\ ret' = "pending"
          /\ UNCHANGED priorityQueueRef
  /\ UNCHANGED <<audio, previousAudioRef, priorityAudioRef, bgMusicRef,
                 audioMetadataRef, staleVisibility, pendingBg>>

playAudio(h, options) ==
  /\ IF h = NoHandle
     THEN /\ ret' = "false"
          /\ UNCHANGED <<priorityQueueRef, pendingPlay>>
     ELSE IF Blocked(options, audio, priorityAudioRef)
     THEN /\ options.queueIfBlocked => Len(priorityQueueRef) < MaxQueue
          /\ priorityQueueRef' =
               IF options.queueIfBlocked
               THEN Append(priorityQueueRef, [audioRef |-> h, options |-> options])
               ELSE priorityQueueRef
          /\ ret' = "false"
          /\ UNCHANGED pendingPlay
     ELSE /\ BagCardinality(pendingPlay) + Cardinality(pendingBg) < MaxPending
          /\ pendingPlay' = Admit(h, options, FALSE)
          /\ ret' = "pending"
          /\ UNCHANGED priorityQueueRef
  /\ UNCHANGED <<audio, previousAudioRef, priorityAudioRef, bgMusicRef,
                 audioMetadataRef, staleVisibility, pendingBg>>

\* lines 345-408: the continuation after audioContext.resume().
\*   outcome "contextError": new AudioContext() or resume() failed
\*   outcome "rejected":     element.play() is rejected, the element does not start
\*   outcome "started":      element.play() starts the element
\* A volume outside [0,1] makes the assignment at line 362 throw.
\* mutant of handlePriorityAudio: the occupant of the slot is not stopped
handlePriorityAudioNoStop(w, bgm, slot, h, options) ==
  IF options.priority
  THEN LET ducked == duckBackgroundMusic(w, bgm)
       IN [w |-> ducked.w, bgm |-> ducked.bgm, slot |-> h]
  ELSE [w |-> w, bgm |-> bgm, slot |-> slot]

\* lines 346-353: a priority request stops the occupant of the priority
\* slot, takes the slot and ducks the background music
handlePriorityAudio(w, bgm, slot, h, options) ==
  IF options.priority
  THEN LET ducked == duckBackgroundMusic(stopAudio(w, slot), bgm)
       IN [w |-> ducked.w, bgm |-> ducked.bgm, slot |-> h]
  ELSE [w |-> w, bgm |-> bgm, slot |-> slot]

\* mutant of stopPreviousAudio: the previous audio is never stopped
stopPreviousAudioSkipped(w, previous, options) == w

\* mutant of stopPreviousAudio: the option stopPrevious is not read
stopPreviousAudioAlways(w, previous, options) ==
  IF previous # NoHandle THEN stopAudio(w, previous) ELSE w

\* lines 355-358: stop previous audio if required
stopPreviousAudio(w, previous, options) ==
  IF options.stopPrevious /\ previous # NoHandle THEN stopAudio(w, previous) ELSE w

playAudioResume(c, outcome) ==
  LET h        == c.audioRef
      options  == c.options
      ducked   == handlePriorityAudio(World, bgMusicRef, priorityAudioRef, h, options)
      slot     == ducked.slot
      w2       == stopPreviousAudio(ducked.w, previousAudioRef, options)
      w3       == configureAudio(w2, h)
      inRange  == ~Less(options.volume, Zero) /\ ~Less(One, options.volume)
      old      == w3.audio[h].onended
      w4       == [w3 EXCEPT !.audio[h].volume = options.volume,
                             !.audio[h].loop = options.loop,
                             !.audio[h].onended =
                                [set |-> TRUE, priority |-> options.priority,
                                 visibility |-> TRUE, queued |-> c.queued]]
      w5       == IF outcome = "started" THEN ElementPlay(w4, h) ELSE w4
  IN /\ BagIn(c, pendingPlay)
     /\ pendingPlay' = pendingPlay (-) SetToBag({c})
     /\ UNCHANGED priorityQueueRef
     /\ IF outcome = "contextError"
        THEN /\ ret' = "false"
             /\ UNCHANGED <<audio, previousAudioRef, priorityAudioRef, bgMusicRef,
                            audioMetadataRef, staleVisibility, pendingBg>>
        ELSE /\ priorityAudioRef' = slot
             /\ bgMusicRef' = ducked.bgm
             /\ IF ~inRange
                THEN /\ Commit(w3)
                     /\ ret' = "false"
                     /\ UNCHANGED <<previousAudioRef, staleVisibility>>
                ELSE /\ Commit(w5)
                     /\ previousAudioRef' = h
                     /\ staleVisibility' =
                          IF old.set /\ old.visibility /\ ~old.priority
                          THEN staleVisibility \cup {h} ELSE staleVisibility
                     /\ ret' = IF outcome = "started" THEN "true" ELSE "false"

(* --------------------------- media events ------------------------------ *)
\* lines 276-278: "loadedmetadata" reaches a listener of configureAudio
onLoadedMetadata(h) ==
  /\ audio[h].listeners
  /\ audioMetadataRef.duration = NoDuration
  /\ audioMetadataRef' = [audioMetadataRef EXCEPT !.duration = Duration]
  /\ ret' = "none"
  /\ UNCHANGED <<audio, previousAudioRef, priorityAudioRef, bgMusicRef, priorityQueueRef,
                 staleVisibility, pendingPlay, pendingBg>>

\* playback advances by one tick, "timeupdate"; a looping element that
\* reaches the end seeks back to the start
TimeUpdate(h) ==
  LET t  == audio[h].currentTime + 1
      t1 == IF t = Duration /\ audio[h].loop THEN 0 ELSE t
  IN /\ Audible(audio, h)
     /\ Commit(ElementSeek(World, h, t1))
     /\ ret' = "none"
     /\ UNCHANGED <<previousAudioRef, priorityAudioRef, bgMusicRef, priorityQueueRef,
                    staleVisibility, pendingPlay>>

\* mutant of QueueShift: pop() takes the newest request
QueuePop(q) == [nextAudio |-> q[Len(q)], rest |-> SubSeq(q, 1, Len(q) - 1)]

\* line 381: priorityQueueRef.current.shift()
QueueShift(q) == [nextAudio |-> Head(q), rest |-> Tail(q)]

\* lines 374-394: enhancedOnEnd of the closure installed on h
enhancedOnEnd(w, h) ==
  LET handler == w.audio[h].onended
      w1 == IF handler.priority THEN restoreBackgroundMusic(w, bgMusicRef) ELSE w
      slot == IF handler.priority THEN NoHandle ELSE priorityAudioRef
      dequeue == handler.priority /\ Len(priorityQueueRef) > 0
      nextAudio == QueueShift(priorityQueueRef).nextAudio
      shifted == QueueShift(priorityQueueRef).rest
      \* lines 383-386: playAudio(nextAudio.audioRef, {...options, ignorePriority: true})
      \* runs up to its first await inside the handler
      options == [nextAudio.options EXCEPT !.ignorePriority = TRUE]
      blocked == Blocked(options, w1.audio, slot)
  IN /\ priorityAudioRef' = slot
     /\ priorityQueueRef' =
          IF ~dequeue THEN priorityQueueRef
          ELSE IF blocked /\ options.queueIfBlocked
               THEN Append(shifted, [audioRef |-> nextAudio.audioRef, options |-> options])
               ELSE shifted
     /\ pendingPlay' = IF dequeue /\ ~blocked
                       THEN Admit(nextAudio.audioRef, options, TRUE)
                       ELSE pendingPlay
     /\ Commit([w1 EXCEPT !.audio[h].onended.visibility = FALSE])

\* the element is still at its end when the queued task runs: paused is set,
\* "pause" and "ended" are fired
Ended(h) ==
  LET w1 == ElementPause(World, h)
  IN /\ ~audio[h].paused
     /\ audio[h].currentTime = Duration
     /\ ~audio[h].loop
     /\ IF audio[h].onended.set
        THEN enhancedOnEnd(w1, h)
        ELSE /\ Commit(w1)
             /\ UNCHANGED <<priorityAudioRef, priorityQueueRef, pendingPlay>>
     /\ ret' = "none"
     /\ UNCHANGED <<previousAudioRef, bgMusicRef, staleVisibility>>

\* lines 365-372: visibilitychange with document.hidden: every registered
\* handleVisibilityChange of a non-priority closure stops its element
VisibilityHidden ==
  LET targets == staleVisibility \cup
                 {h \in Handles : audio[h].onended.set /\ audio[h].onended.visibility
                                  /\ ~audio[h].onended.priority}
      RECURSIVE StopAll(_, _)
      StopAll(w, hs) == IF hs = {} THEN w
                        ELSE LET h == CHOOSE x \in hs : TRUE
                             IN StopAll(stopAudio(w, h), hs \ {h})
  IN /\ targets # {}
     /\ Commit(StopAll(World, targets))
     /\ ret' = "none"
     /\ UNCHANGED <<previousAudioRef, priorityAudioRef, bgMusicRef, priorityQueueRef,
                    staleVisibility, pendingPlay>>

(* -------------------------- background music --------------------------- *)
\* lines 156-187: the call up to await playPromise
playBackgroundMusic(h, volume, enableDucking, outcome) ==
  LET w1 == stopAudio(World, bgMusicRef.audioRef)
      normalizedVolume == Clamp(volume)
      shouldDuck == hasPriorityAudioIn(w1.audio, priorityAudioRef) /\ enableDucking
      initialVolume == IF shouldDuck THEN Times02(normalizedVolume) ELSE normalizedVolume
      w2 == [w1 EXCEPT !.audio[h].loop = TRUE, !.audio[h].volume = initialVolume]
      w3 == ElementPlay(w2, h)
      call == [audioRef |-> h, volume |-> initialVolume, originalVolume |-> normalizedVolume,
               enableDucking |-> enableDucking, aborted |-> FALSE]
  IN IF h = NoHandle
     THEN /\ ret' = "none"
          /\ UNCHANGED <<audio, audioMetadataRef, pendingBg, previousAudioRef,
                         priorityAudioRef, bgMusicRef, priorityQueueRef,
                         staleVisibility, pendingPlay>>
     ELSE /\ BagCardinality(pendingPlay) + Cardinality(pendingBg) < MaxPending
          /\ IF outcome = "started"
             THEN Commit([w3 EXCEPT !.bg = @ \cup {call}])
             ELSE Commit(w2)
          /\ ret' = "none"
          /\ UNCHANGED <<previousAudioRef, priorityAudioRef, bgMusicRef, priorityQueueRef,
                         staleVisibility, pendingPlay>>

\* lines 189-199: the continuation; a play promise rejected by pause() goes
\* to the catch block and the state is not written
playBackgroundMusicResume(c) ==
  /\ c \in pendingBg
  /\ pendingBg' = pendingBg \ {c}
  /\ bgMusicRef' = IF c.aborted THEN bgMusicRef
                   ELSE [audioRef |-> c.audioRef, volume |-> c.volume, isPlaying |-> TRUE,
                         originalVolume |-> c.originalVolume, enableDucking |-> c.enableDucking]
  /\ ret' = "none"
  /\ UNCHANGED <<audio, previousAudioRef, priorityAudioRef, audioMetadataRef,
                 priorityQueueRef, staleVisibility, pendingPlay>>

\* mutant of stopBackgroundMusic: isPlaying is not cleared
stopBackgroundMusicKeepsPlaying ==
  /\ IF bgMusicRef.audioRef # NoHandle
     THEN /\ Commit(stopAudio(World, bgMusicRef.audioRef))
          /\ bgMusicRef' = bgMusicRef
     ELSE UNCHANGED <<audio, audioMetadataRef, pendingBg, bgMusicRef>>
  /\ ret' = "none"
  /\ UNCHANGED <<previousAudioRef, priorityAudioRef, priorityQueueRef,
                 staleVisibility, pendingPlay>>

stopBackgroundMusic ==
  /\ IF bgMusicRef.audioRef # NoHandle
     THEN /\ Commit(stopAudio(World, bgMusicRef.audioRef))
          /\ bgMusicRef' = [bgMusicRef EXCEPT !.isPlaying = FALSE]
     ELSE UNCHANGED <<audio, audioMetadataRef, pendingBg, bgMusicRef>>
  /\ ret' = "none"
  /\ UNCHANGED <<previousAudioRef, priorityAudioRef, priorityQueueRef,
                 staleVisibility, pendingPlay>>

\* mutant of setBackgroundMusicVolume: the priority sound is not consulted
setBackgroundMusicVolumeNoDuck(volume) ==
  LET normalizedVolume == Clamp(volume)
  IN /\ IF bgMusicRef.audioRef # NoHandle
        THEN /\ bgMusicRef' = [bgMusicRef EXCEPT !.originalVolume = normalizedVolume,
                                                 !.volume = normalizedVolume]
             /\ audio' = [audio EXCEPT ![bgMusicRef.audioRef].volume = normalizedVolume]
        ELSE UNCHANGED <<bgMusicRef, audio>>
     /\ ret' = "none"
     /\ UNCHANGED <<previousAudioRef, priorityAudioRef, audioMetadataRef, priorityQueueRef,
                    staleVisibility, pendingPlay, pendingBg>>

setBackgroundMusicVolume(volume) ==
  LET normalizedVolume == Clamp(volume)
      finalVolume == IF hasPriorityAudio /\ bgMusicRef.enableDucking
                     THEN Times02(normalizedVolume) ELSE normalizedVolume
  IN /\ IF bgMusicRef.audioRef # NoHandle
        THEN /\ bgMusicRef' = [bgMusicRef EXCEPT !.originalVolume = normalizedVolume,
                                                 !.volume = finalVolume]
             /\ audio' = [audio EXCEPT ![bgMusicRef.audioRef].volume = finalVolume]
        ELSE UNCHANGED <<bgMusicRef, audio>>
     /\ ret' = "none"
     /\ UNCHANGED <<previousAudioRef, priorityAudioRef, audioMetadataRef, priorityQueueRef,
                    staleVisibility, pendingPlay, pendingBg>>

setBackgroundMusicDucking(enableDucking) ==
  LET ref == bgMusicRef.audioRef
  IN /\ IF ref # NoHandle
        THEN /\ bgMusicRef' = [bgMusicRef EXCEPT !.enableDucking = enableDucking]
             /\ audio' = IF ~enableDucking /\ hasPriorityAudio
                         THEN [audio EXCEPT ![ref].volume = bgMusicRef.originalVolume]
                         ELSE IF enableDucking /\ hasPriorityAudio
                         THEN [audio EXCEPT ![ref].volume = Times02(bgMusicRef.originalVolume)]
                         ELSE audio
        ELSE UNCHANGED <<bgMusicRef, audio>>
     /\ ret' = "none"
     /\ UNCHANGED <<previousAudioRef, priorityAudioRef, audioMetadataRef, priorityQueueRef,
                    staleVisibility, pendingPlay, pendingBg>>

(* ----------------------- other exported calls -------------------------- *)
\* stopAudio called by the owner of the handle
stopAudioCall(h) ==
  /\ Commit(stopAudio(World, h))
  /\ ret' = "none"
  /\ UNCHANGED <<previousAudioRef, priorityAudioRef, bgMusicRef, priorityQueueRef,
                 staleVisibility, pendingPlay>>

\* stopAudio when the element throws: in pause(), before anything changed, or
\* in the assignment to currentTime, after the element was paused; the catch
\* block at line 108 logs the error
stopAudioFailing(w, h, at) ==
  IF h = NoHandle \/ at = "pause" THEN w ELSE ElementPause(w, h)

\* mutant of stopAudioCallFails: the error is not caught
stopAudioCallThrows(h, at) ==
  /\ Commit(stopAudioFailing(World, h, at))
  /\ ret' = "throws"
  /\ UNCHANGED <<previousAudioRef, priorityAudioRef, bgMusicRef, priorityQueueRef,
                 staleVisibility, pendingPlay>>

\* stopAudio called by the owner of the handle, the element throwing
stopAudioCallFails(h, at) ==
  /\ Commit(stopAudioFailing(World, h, at))
  /\ ret' = "none"
  /\ UNCHANGED <<previousAudioRef, priorityAudioRef, bgMusicRef, priorityQueueRef,
                 staleVisibility, pendingPlay>>

setVolume(h, volume) ==
  /\ audio' = IF h = NoHandle THEN audio
              ELSE [audio EXCEPT ![h].volume = Clamp(volume)]
  /\ ret' = "none"
  /\ UNCHANGED <<previousAudioRef, priorityAudioRef, bgMusicRef, audioMetadataRef,
                 priorityQueueRef, staleVisibility, pendingPlay, pendingBg>>

\* mutant of cleanup: every handle is stopped, tracked or not
cleanupStopsAll ==
  LET w1 == stopAudio(stopAudio(stopAudio(World, "A"), "B"), "M")
  IN /\ Commit(w1)
     /\ previousAudioRef' = NoHandle
     /\ priorityAudioRef' = NoHandle
     /\ bgMusicRef' = [audioRef |-> NoHandle, volume |-> One, isPlaying |-> FALSE,
                       originalVolume |-> One, enableDucking |-> TRUE]
     /\ priorityQueueRef' = <<>>
     /\ ret' = "none"
     /\ UNCHANGED <<staleVisibility, pendingPlay>>

\* mutant of cleanup: the playback metadata is not reset
cleanupKeepsMetadata ==
  LET w1 == stopAudio(World, previousAudioRef)
      w2 == stopAudio(w1, priorityAudioRef)
      w3 == stopAudio(w2, bgMusicRef.audioRef)
  IN /\ Commit(w3)
     /\ previousAudioRef' = NoHandle
     /\ priorityAudioRef' = NoHandle
     /\ bgMusicRef' = [audioRef |-> NoHandle, volume |-> One, isPlaying |-> FALSE,
                       originalVolume |-> One, enableDucking |-> TRUE]
     /\ priorityQueueRef' = <<>>
     /\ ret' = "none"
     /\ UNCHANGED <<staleVisibility, pendingPlay>>

cleanup ==
  LET w1 == stopAudio(World, previousAudioRef)
      w2 == stopAudio(w1, priorityAudioRef)
      w3 == stopAudio(w2, bgMusicRef.audioRef)
      RECURSIVE forEach(_, _)
      forEach(w, q) == IF q = <<>> THEN w
                       ELSE forEach(cleanupEventListeners(w, Head(q).audioRef), Tail(q))
      w4 == forEach(w3, priorityQueueRef)
  IN /\ audio' = w4.audio
     /\ pendingBg' = w4.bg
     /\ previousAudioRef' = NoHandle
     /\ priorityAudioRef' = NoHandle
     /\ bgMusicRef' = [audioRef |-> NoHandle, volume |-> One, isPlaying |-> FALSE,
                       originalVolume |-> One, enableDucking |-> TRUE]
     /\ priorityQueueRef' = <<>>
     /\ audioMetadataRef' = [duration |-> NoDuration, currentTime |-> 0, isPlaying |-> FALSE]
     /\ ret' = "none"
     /\ UNCHANGED <<staleVisibility, pendingPlay>>

getAudioMetadata == audioMetadataRef

getBackgroundMusicState ==
  [isPlaying |-> bgMusicRef.isPlaying, volume |-> bgMusicRef.volume,
   originalVolume |-> bgMusicRef.originalVolume, enableDucking |-> bgMusicRef.enableDucking]

(* ------------------------- initial values ----------------------------- *)
InitialBgMusic ==
  [audioRef |-> NoHandle, volume |-> One, isPlaying |-> FALSE,
   originalVolume |-> One, enableDucking |-> TRUE]

InitialMetadata ==
  [duration |-> NoDuration, currentTime |-> 0, isPlaying |-> FALSE]

\* new Audio(url): paused, at the start, volume 1, no loop, no handlers
NewAudio ==
  [paused |-> TRUE, currentTime |-> 0, volume |-> One, loop |-> FALSE,
   onended |-> NoHandler, listeners |-> FALSE]

Init ==
  /\ audio = [h \in Handles |-> NewAudio]
  /\ previousAudioRef = NoHandle
  /\ priorityAudioRef = NoHandle
  /\ bgMusicRef = InitialBgMusic
  /\ audioMetadataRef = InitialMetadata
  /\ priorityQueueRef = <<>>
  /\ staleVisibility = {}
  /\ pendingPlay = EmptyBag
  /\ pendingBg = {}
  /\ ret = "none"
  /\ calls = 0

(* --------------------------- specification ----------------------------- *)
Outcomes == {"started", "rejected", "contextError"}
StartOutcomes == {"started", "rejected"}

\* an exported call made by the game, within the budget of n calls
Call(n) == calls < n /\ calls' = calls + 1
\* a continuation or an event handler run by the event loop
Event == UNCHANGED calls

Next ==
  \/ Call(MaxCalls) /\ \E h \in SfxHandles, options \in AudioControlOptions : playAudio(h, options)
  \/ Call(MaxCalls) /\ \E h \in MusicHandles, enableDucking \in BOOLEAN, outcome \in StartOutcomes :
                         playBackgroundMusic(h, Volume08, enableDucking, outcome)
  \/ Call(MaxCalls) /\ stopBackgroundMusic
  \/ Call(MaxCalls) /\ setBackgroundMusicVolume(Volume2)
  \/ Call(MaxCalls) /\ \E h \in SfxHandles : stopAudioCall(h)
  \/ Call(MaxCalls) /\ \E h \in SfxHandles : setVolume(h, Volume2)
  \/ Call(MaxCalls) /\ cleanup
  \/ Event /\ \E c \in BagToSet(pendingPlay), outcome \in Outcomes : playAudioResume(c, outcome)
  \/ Event /\ \E c \in pendingBg : playBackgroundMusicResume(c)
  \/ Event /\ \E h \in Handles : TimeUpdate(h)
  \/ Event /\ \E h \in Handles : Ended(h)
  \/ Event /\ VisibilityHidden

Spec == Init /\ [][Next]_vars

\* Spec with the "loadedmetadata" listener, which writes the duration into
\* the playback metadata, for one effect handle and the music handle.
MetadataNext ==
  \/ Call(MaxMetadataCalls) /\ \E options \in AudioControlOptions : playAudio("A", options)
  \/ Call(MaxMetadataCalls) /\ \E h \in MusicHandles, enableDucking \in BOOLEAN, outcome \in StartOutcomes :
                                 playBackgroundMusic(h, Volume08, enableDucking, outcome)
  \/ Call(MaxMetadataCalls) /\ stopBackgroundMusic
  \/ Call(MaxMetadataCalls) /\ setBackgroundMusicVolume(Volume2)
  \/ Call(MaxMetadataCalls) /\ stopAudioCall("A")
  \/ Call(MaxMetadataCalls) /\ setVolume("A", Volume2)
  \/ Call(MaxMetadataCalls) /\ cleanup
  \/ Event /\ \E c \in BagToSet(pendingPlay), outcome \in Outcomes : playAudioResume(c, outcome)
  \/ Event /\ \E c \in pendingBg : playBackgroundMusicResume(c)
  \/ Event /\ \E h \in Handles : onLoadedMetadata(h)
  \/ Event /\ \E h \in Handles : TimeUpdate(h)
  \/ Event /\ \E h \in Handles : Ended(h)
  \/ Event /\ VisibilityHidden

MetadataSpec == Init /\ [][MetadataNext]_vars

\* The effects alone: playAudio on the effect handles and the events that
\* follow from it, with a longer run of calls.
SfxNext ==
  \/ Call(MaxSfxCalls) /\ \E h \in SfxHandles, options \in AudioControlOptions : playAudio(h, options)
  \/ Event /\ \E c \in BagToSet(pendingPlay), outcome \in Outcomes : playAudioResume(c, outcome)
  \/ Event /\ \E h \in SfxHandles : TimeUpdate(h)
  \/ Event /\ \E h \in SfxHandles : Ended(h)

SfxSpec == Init /\ [][SfxNext]_vars

\* The effects with cleanup(): SfxSpec and the teardown.
CleanupNext ==
  \/ Call(MaxCleanupCalls) /\ \E h \in SfxHandles, options \in AudioControlOptions : playAudio(h, options)
  \/ Call(MaxCleanupCalls) /\ cleanup
  \/ Event /\ \E c \in BagToSet(pendingPlay), outcome \in Outcomes : playAudioResume(c, outcome)
  \/ Event /\ \E h \in SfxHandles : TimeUpdate(h)
  \/ Event /\ \E h \in SfxHandles : Ended(h)

CleanupSpec == Init /\ [][CleanupNext]_vars

\* The background music alone, with two tracks (the elements M and A) and
\* every playBackgroundMusic call completed before the next one is made.
BgTracks == {"M", "A"}

BgNext ==
  \/ Call(MaxBgCalls) /\ pendingBg = {}
       /\ \E h \in BgTracks, enableDucking \in BOOLEAN, outcome \in StartOutcomes :
            playBackgroundMusic(h, Volume08, enableDucking, outcome)
  \/ Call(MaxBgCalls) /\ stopBackgroundMusic
  \/ Event /\ \E c \in pendingBg : playBackgroundMusicResume(c)
  \/ Event /\ \E h \in BgTracks : TimeUpdate(h)

BgSpec == Init /\ [][BgNext]_vars

\* The background music with two tracks and calls that overlap: a call may
\* be made while an earlier playBackgroundMusic call is suspended.
BgOverlapNext ==
  \/ Call(MaxOverlapCalls)
       /\ \E h \in BgTracks, enableDucking \in BOOLEAN, outcome \in StartOutcomes :
            playBackgroundMusic(h, Volume08, enableDucking, outcome)
  \/ Call(MaxOverlapCalls) /\ stopBackgroundMusic
  \/ Event /\ \E c \in pendingBg : playBackgroundMusicResume(c)
  \/ Event /\ \E h \in BgTracks : TimeUpdate(h)

BgOverlapSpec == Init /\ [][BgOverlapNext]_vars

\* Runs that end with the teardown: requests for an effect and for the
\* music, then cleanup() as the last call of the run; the continuations and
\* the events go on after it.
TeardownNext ==
  \/ Call(MaxTeardownCalls - 1) /\ \E h \in SfxHandles, options \in AudioControlOptions : playAudio(h, options)
  \/ Call(MaxTeardownCalls - 1)
       /\ \E h \in MusicHandles, enableDucking \in BOOLEAN, outcome \in StartOutcomes :
            playBackgroundMusic(h, Volume08, enableDucking, outcome)
  \/ calls = MaxTeardownCalls - 1 /\ Call(MaxTeardownCalls) /\ cleanup
  \/ Event /\ \E c \in BagToSet(pendingPlay), outcome \in Outcomes : playAudioResume(c, outcome)
  \/ Event /\ \E c \in pendingBg : playBackgroundMusicResume(c)
  \/ Event /\ \E h \in Handles : TimeUpdate(h)
  \/ Event /\ \E h \in Handles : Ended(h)

TeardownSpec == Init /\ [][TeardownNext]_vars

\* The music with requested volumes in and out of [0,1], and one priority
\* effect that ducks it.
PlayVolumes == {VolumeMinus05, Volume08, Volume2}
SetVolumes == {VolumeMinus05, Volume05, Volume2}
PriorityOptions ==
  {options \in AudioControlOptions :
     options.priority /\ options.stopPrevious /\ ~options.ignorePriority /\ ~options.queueIfBlocked}

MusicNext ==
  \/ Call(MaxMusicCalls) /\ \E options \in PriorityOptions : playAudio("A", options)
  \/ Call(MaxMusicCalls)
       /\ \E volume \in PlayVolumes, enableDucking \in BOOLEAN, outcome \in StartOutcomes :
            playBackgroundMusic("M", volume, enableDucking, outcome)
  \/ Call(MaxMusicCalls) /\ \E volume \in SetVolumes : setBackgroundMusicVolume(volume)
  \/ Call(MaxMusicCalls) /\ stopBackgroundMusic
  \/ Event /\ \E c \in BagToSet(pendingPlay), outcome \in Outcomes : playAudioResume(c, outcome)
  \/ Event /\ \E c \in pendingBg : playBackgroundMusicResume(c)
  \/ Event /\ \E h \in Handles : TimeUpdate(h)
  \/ Event /\ \E h \in Handles : Ended(h)

MusicSpec == Init /\ [][MusicNext]_vars

\* The music, one priority effect and setBackgroundMusicDucking, the
\* function of lines 238-256 (the hook defines it; the object it returns at
\* lines 481-493 does not hold it).
DuckingNext ==
  \/ Call(MaxDuckingCalls) /\ \E options \in PriorityOptions : playAudio("A", options)
  \/ Call(MaxDuckingCalls)
       /\ \E enableDucking \in BOOLEAN, outcome \in StartOutcomes :
            playBackgroundMusic("M", Volume08, enableDucking, outcome)
  \/ Call(MaxDuckingCalls) /\ stopAudioCall("A")
  \/ Call(MaxDuckingCalls) /\ \E enableDucking \in BOOLEAN : setBackgroundMusicDucking(enableDucking)
  \/ Event /\ \E c \in BagToSet(pendingPlay), outcome \in Outcomes : playAudioResume(c, outcome)
  \/ Event /\ \E c \in pendingBg : playBackgroundMusicResume(c)
  \/ Event /\ \E h \in Handles : TimeUpdate(h)
  \/ Event /\ \E h \in Handles : Ended(h)

DuckingSpec == Init /\ [][DuckingNext]_vars

\* The effects with requested volumes in and out of [0,1].
VolumeOptions ==
  [stopPrevious : {TRUE}, volume : PlayVolumes, loop : {FALSE},
   priority : BOOLEAN, ignorePriority : {FALSE}, queueIfBlocked : {FALSE}]

VolumeNext ==
  \/ Call(MaxVolumeCalls) /\ \E h \in SfxHandles, options \in VolumeOptions : playAudio(h, options)
  \/ Call(MaxVolumeCalls) /\ \E h \in SfxHandles, volume \in PlayVolumes : setVolume(h, volume)
  \/ Event /\ \E c \in BagToSet(pendingPlay), outcome \in Outcomes : playAudioResume(c, outcome)
  \/ Event /\ \E h \in SfxHandles : TimeUpdate(h)
  \/ Event /\ \E h \in SfxHandles : Ended(h)

VolumeSpec == Init /\ [][VolumeNext]_vars

\* One effect handle and the music handle with the inputs and outcomes of the
\* error paths: null handles, a device that rejects play(), an element that
\* throws in stopAudio.
FaultNext ==
  \/ Call(MaxFaultCalls) /\ \E h \in {"A", NoHandle}, options \in AudioControlOptions : playAudio(h, options)
  \/ Call(MaxFaultCalls) /\ \E h \in {"M", NoHandle}, enableDucking \in BOOLEAN, outcome \in StartOutcomes :
                              playBackgroundMusic(h, Volume08, enableDucking, outcome)
  \/ Call(MaxFaultCalls) /\ \E h \in {"A", NoHandle} : stopAudioCall(h)
  \/ Call(MaxFaultCalls) /\ \E at \in {"pause", "seek"} : stopAudioCallFails("A", at)
  \/ Call(MaxFaultCalls) /\ \E h \in {"A", NoHandle} : setVolume(h, Volume2)
  \/ Event /\ \E c \in BagToSet(pendingPlay), outcome \in Outcomes : playAudioResume(c, outcome)
  \/ Event /\ \E c \in pendingBg : playBackgroundMusicResume(c)
  \/ Event /\ \E h \in Handles : TimeUpdate(h)
  \/ Event /\ \E h \in Handles : Ended(h)

FaultSpec == Init /\ [][FaultNext]_vars

\* Playback events are delivered: a suspended call is resumed, a playing
\* element advances and fires "ended" at its end.  Calls and
\* visibilitychange depend on the user and are not forced.
Delivered ==
  /\ Event
  /\ \/ \E c \in BagToSet(pendingPlay), outcome \in Outcomes : playAudioResume(c, outcome)
     \/ \E c \in pendingBg : playBackgroundMusicResume(c)
     \/ \E h \in Handles : TimeUpdate(h)
     \/ \E h \in Handles : Ended(h)

FairSpec == Init /\ [][Next]_vars /\ WF_vars(Delivered)

(* ------------------------------ claims --------------------------------- *)
\* The handles that are audible and whose installed completion handler is
\* the one of a priority request: the sounds started as priority sounds.
PrioritySounds ==
  {h \in Handles : Audible(audio, h) /\ audio[h].onended.set /\ audio[h].onended.priority}

\* the continuation of a suspended playAudio call for c runs in this step
\* and gets past the audio context
PlayAdmitted(c) ==
  \E outcome \in StartOutcomes : playAudioResume(c, outcome)

\* C1: at most one sound started as a priority sound is audible in any
\* reachable state, and the step that gives the priority slot to a new
\* handle leaves the former occupant of the slot stopped.
C1_OnePrioritySound ==
  /\ [](Cardinality(PrioritySounds) <= 1)
  /\ [][\A c \in BagToSet(pendingPlay) :
          (PlayAdmitted(c) /\ c.options.priority
             /\ priorityAudioRef \notin {NoHandle, c.audioRef})
          => /\ priorityAudioRef' = c.audioRef
             /\ audio'[priorityAudioRef].paused
             /\ audio'[priorityAudioRef].currentTime = 0]_vars

\* B took the priority slot from A, which was playing as the priority sound
\* and never completed: A is stopped, B is audible
C1_Witness ==
  /\ priorityAudioRef = "B" /\ Audible(audio, "B") /\ ret = "true"
  /\ audio["A"].onended.priority /\ audio["A"].onended.visibility
  /\ audio["A"].paused /\ audio["A"].listeners

\* a non-priority request without ignorePriority and without queueIfBlocked
Plain(options) == ~options.priority /\ ~options.ignorePriority /\ ~options.queueIfBlocked

\* C2: when hasPriorityAudio() is true, play(B, options) with priority,
\* ignorePriority and queueIfBlocked all false returns false, starts nothing
\* and leaves the priority sound playing: no element changes, nothing is
\* suspended and nothing is queued.
C2_BlockedIsDropped ==
  [][\A h \in SfxHandles, options \in {o \in AudioControlOptions : Plain(o)} :
       (hasPriorityAudio /\ calls' # calls /\ playAudio(h, options))
       => /\ ret' = "false"
          /\ audio' = audio
          /\ pendingPlay' = pendingPlay
          /\ priorityQueueRef' = priorityQueueRef
          /\ hasPriorityAudio']_vars

\* a plain request for B was just dropped while A plays as the priority sound
C2_Witness ==
  /\ ret = "false" /\ priorityAudioRef = "A" /\ hasPriorityAudio
  /\ pendingPlay = EmptyBag /\ priorityQueueRef = <<>>
  /\ ~audio["B"].onended.set /\ audio["B"].paused
  /\ calls = 2

\* a background track is tracked as playing with ducking enabled
BgDucking ==
  bgMusicRef.audioRef # NoHandle /\ bgMusicRef.isPlaying /\ bgMusicRef.enableDucking

\* the volume applied to the tracked background handle
AppliedBgVolume == audio[bgMusicRef.audioRef].volume

\* C3: whenever a priority sound is audible and a background track is
\* tracked as playing with ducking enabled, the volume applied to the
\* background handle is exactly originalVolume * 0.2.
C3_DuckedWhilePriority ==
  (hasPriorityAudio /\ BgDucking) => AppliedBgVolume = Times02(bgMusicRef.originalVolume)

\* no priority sound is audible and none is about to fire its completion
\* event: the priority slot is empty or its occupant is paused
PriorityOver == priorityAudioRef = NoHandle \/ audio[priorityAudioRef].paused

\* C4: once the priority sound is no longer audible (ended, or stopped) and
\* the background music is playing with ducking enabled, the volume applied
\* to the background handle is exactly originalVolume.
C4_RestoredAfterPriority ==
  (PriorityOver /\ BgDucking) => AppliedBgVolume = bgMusicRef.originalVolume

\* the completion event of the priority sound h is handled in this step: its
\* "ended" fires while its handler is the closure of a priority request
PriorityCompletes(h) ==
  /\ audio[h].onended.set /\ audio[h].onended.priority
  /\ calls' = calls
  /\ Ended(h)

QueuedSounds ==
  {h \in Handles : Audible(audio, h) /\ audio[h].onended.set /\ audio[h].onended.queued}

\* C6: in no reachable state are two sounds that were both started from the
\* priority queue audible at the same time.
C6_OneQueuedSound == Cardinality(QueuedSounds) <= 1

\* the number of suspended playAudio calls that were made for a queued request
QueuedCalls(bag) ==
  BagCardinality([c \in {d \in BagToSet(bag) : d.queued} |-> CopiesIn(c, bag)])

\* C7: when the completion event of a priority sound fires with a request
\* waiting, the oldest request is removed and one playAudio call is made for
\* it; that call starts its sound whatever the priority slot holds by then
\* (the check is bypassed); a call for a queued request is made by no other
\* step, so one queued request is started once.
C7_QueuedStartedOnce ==
  /\ [][\A h \in SfxHandles :
          (priorityQueueRef # <<>> /\ PriorityCompletes(h))
          => /\ priorityQueueRef' = Tail(priorityQueueRef)
             /\ pendingPlay' = pendingPlay (+)
                   SetToBag({Suspended(Head(priorityQueueRef).audioRef,
                                       Head(priorityQueueRef).options, TRUE)})
             /\ QueuedCalls(pendingPlay') = QueuedCalls(pendingPlay) + 1]_vars
  /\ [][\A c \in BagToSet(pendingPlay) :
          (c.queued /\ playAudioResume(c, "started"))
          => /\ ~audio'[c.audioRef].paused
             /\ audio'[c.audioRef].onended.queued
             /\ QueuedCalls(pendingPlay') = QueuedCalls(pendingPlay) - 1]_vars
  /\ [][QueuedCalls(pendingPlay') > QueuedCalls(pendingPlay)
          => /\ priorityQueueRef # <<>>
             /\ priorityQueueRef' = Tail(priorityQueueRef)
             /\ \E h \in SfxHandles : PriorityCompletes(h)]_vars

\* B was queued behind A and started by A's completion while a second
\* priority request for A, admitted before, had made A audible again
C7_Witness ==
  /\ hasPriorityAudio /\ priorityAudioRef = "A"
  /\ previousAudioRef = "B" /\ Audible(audio, "B") /\ audio["B"].onended.queued
  /\ ret = "true"
  /\ priorityQueueRef = <<>> /\ pendingPlay = EmptyBag

\* C8: a request in the queue is eventually taken out of it once no priority
\* sound is active, when suspended calls are resumed and playback events are
\* delivered.
C8_QueuedEventuallyStarted ==
  \A n \in 1..MaxQueue :
     (Len(priorityQueueRef) = n /\ ~hasPriorityAudio) ~> (Len(priorityQueueRef) < n)

\* the background track as playBackgroundMusic leaves it with ducking on and
\* no priority sound audible: playing at its requested volume
BgPlain ==
  /\ BgDucking /\ ~hasPriorityAudio
  /\ bgMusicRef.volume = bgMusicRef.originalVolume
  /\ AppliedBgVolume = bgMusicRef.volume

\* the number the literal 0.16 denotes
Volume016 == Double(-3, <<1310, 11796, 7864, 5243>>)
\* 0.16000000000000003, the next binary64 number above it
Volume016Up == Double(-3, <<1310, 11796, 7864, 5244>>)

\* a priority playAudio call that succeeds is resumed in this step
PriorityStarts(c) == c.options.priority /\ calls' = calls /\ playAudioResume(c, "started")

\* C9 as stated: with v = 0.8 the priority sound brings the applied
\* background volume to 0.16.
C9_DucksTo016 ==
  [][\A c \in BagToSet(pendingPlay) :
       (BgPlain /\ bgMusicRef.volume = Volume08 /\ PriorityStarts(c))
       => AppliedBgVolume' = Volume016]_vars

\* C9: with the background track playing at v, ducking on and no priority
\* sound audible, a priority playAudio that succeeds sets the applied
\* background volume to the binary64 product v * 0.2, which for v = 0.8 is
\* 0.16000000000000003; the completion event of that priority sound sets it
\* back to v.
C9_DuckAndRestore ==
  /\ [][\A c \in BagToSet(pendingPlay) :
          (BgPlain /\ PriorityStarts(c))
          => /\ AppliedBgVolume' = Times(bgMusicRef.volume, Fl02)
             /\ bgMusicRef.volume = Volume08 => AppliedBgVolume' = Volume016Up
             /\ bgMusicRef' = bgMusicRef]_vars
  /\ [][\A h \in SfxHandles :
          (/\ BgDucking /\ bgMusicRef.volume = bgMusicRef.originalVolume
           /\ AppliedBgVolume = Times(bgMusicRef.volume, Fl02)
           /\ PriorityCompletes(h))
          => /\ AppliedBgVolume' = bgMusicRef.volume
             /\ bgMusicRef' = bgMusicRef]_vars

\* M plays at 0.8 again after the priority sound A, which had ducked it to
\* 0.16000000000000003, completed
C9_Witness ==
  /\ BgPlain /\ bgMusicRef.volume = Volume08 /\ bgMusicRef.audioRef = "M"
  /\ ~audio["M"].paused
  /\ priorityAudioRef = NoHandle /\ previousAudioRef = "A"
  /\ audio["A"].onended.priority /\ ~audio["A"].onended.visibility
  /\ audio["A"].paused /\ audio["A"].currentTime = Duration
  /\ audio["A"].volume = One /\ audio["B"] = NewAudio

\* C10: a step that is a call of cleanup() ends in a state where
\* hasPriorityAudio() is false, getAudioMetadata() is {currentTime: 0,
\* isPlaying: false} with no duration, getBackgroundMusicState() is
\* {isPlaying: false, volume: 1, originalVolume: 1, enableDucking: true}, the
\* previous slot and the priority slot are empty and the queue is empty.
C10_CleanupResets ==
  [][(calls' # calls /\ cleanup)
     => /\ ~hasPriorityAudio'
        /\ getAudioMetadata' = [duration |-> NoDuration, currentTime |-> 0, isPlaying |-> FALSE]
        /\ getBackgroundMusicState' = [isPlaying |-> FALSE, volume |-> One,
                                       originalVolume |-> One, enableDucking |-> TRUE]
        /\ previousAudioRef' = NoHandle
        /\ priorityAudioRef' = NoHandle
        /\ priorityQueueRef' = <<>>]_vars

\* cleanup() was called after A was played and M was started as background
\* music: both are stopped and every field is back at its initial value
C10_Witness ==
  /\ previousAudioRef = NoHandle /\ priorityAudioRef = NoHandle
  /\ audio["A"].onended.set /\ audio["A"].paused /\ audio["A"].currentTime = 0
  /\ audio["M"].loop /\ audio["M"].paused /\ audio["M"].currentTime = 0
  /\ bgMusicRef = InitialBgMusic
  /\ audioMetadataRef = InitialMetadata
  /\ priorityQueueRef = <<>>
  /\ calls = MaxMetadataCalls

\* every field of the controller has its initial value: nothing is tracked
NothingTracked ==
  /\ previousAudioRef = NoHandle /\ priorityAudioRef = NoHandle
  /\ bgMusicRef = InitialBgMusic
  /\ priorityQueueRef = <<>>
  /\ audioMetadataRef = InitialMetadata

\* C11: cleanup() called when nothing is tracked, which is the state a
\* cleanup() leaves and the state of a controller with nothing active,
\* changes no field of the controller and no element.
C11_CleanupIdempotent ==
  [][(NothingTracked /\ calls' # calls /\ cleanup)
     => /\ NothingTracked'
        /\ audio' = audio
        /\ UNCHANGED <<staleVisibility, pendingPlay, pendingBg>>]_vars

\* A was played, cleanup() was called and a further call was made: the
\* controller is in its initial state with A stopped
C11_Witness ==
  /\ NothingTracked /\ calls = MaxCalls /\ ret = "none"
  /\ audio["A"].onended.set /\ audio["A"].paused /\ audio["A"].currentTime = 0
  /\ audio["B"] = NewAudio /\ audio["M"] = NewAudio
  /\ pendingPlay = EmptyBag /\ pendingBg = {}

\* the handles the controller tracks: the two slots, the background track and
\* the handles of the queued requests
Tracked ==
  ({previousAudioRef, priorityAudioRef, bgMusicRef.audioRef}
     \cup {priorityQueueRef[i].audioRef : i \in 1..Len(priorityQueueRef)}) \ {NoHandle}

\* C12: when cleanup() returns, every handle that was tracked when it was
\* called (previous slot, priority slot, background track, queued requests)
\* is paused.
C12_CleanupStopsTracked ==
  [][(calls' # calls /\ cleanup) => \A h \in Tracked : audio'[h].paused]_vars

\* no background track is playing: none is tracked, or the tracked one was stopped
BgNotPlaying == bgMusicRef.audioRef = NoHandle \/ ~bgMusicRef.isPlaying

\* the tracked background handle, if any, is stopped
BgHandleStopped ==
  bgMusicRef.audioRef # NoHandle
    => audio[bgMusicRef.audioRef].paused /\ audio[bgMusicRef.audioRef].currentTime = 0

\* C13: stopBackgroundMusic() leaves no background track playing; called when
\* none is playing it changes no field of the controller; called when the
\* tracked handle is already stopped, as it is after a first call, it
\* changes nothing at all, so two calls in a row give the state of one.
C13_StopBackgroundIdempotent ==
  [][(calls' # calls /\ stopBackgroundMusic)
     => /\ BgNotPlaying' /\ BgHandleStopped'
        /\ BgNotPlaying =>
             UNCHANGED <<previousAudioRef, priorityAudioRef, bgMusicRef,
                         priorityQueueRef, audioMetadataRef>>
        /\ (BgNotPlaying /\ BgHandleStopped) =>
             UNCHANGED <<audio, pendingBg, pendingPlay, staleVisibility>>]_vars

\* M was started as background music and stopBackgroundMusic() was called
\* twice: M is tracked, stopped and marked as not playing
C13_Witness ==
  /\ bgMusicRef.audioRef = "M" /\ ~bgMusicRef.isPlaying /\ BgHandleStopped
  /\ audio["M"].loop /\ calls = MaxCalls /\ pendingBg = {}
  /\ audio["A"] = NewAudio /\ audio["B"] = NewAudio /\ pendingPlay = EmptyBag

\* the priority slot holds a handle that is not paused and whose position is
\* before its duration, read from the state at hand
SlotPlaying ==
  /\ priorityAudioRef # NoHandle
  /\ ~audio[priorityAudioRef].paused
  /\ audio[priorityAudioRef].currentTime < Duration

\* C14: hasPriorityAudio() is true exactly when the priority slot holds a
\* handle that is not paused and has not reached its duration, and the check
\* playAudio makes with it follows the state at the time of that call: a
\* request without priority, ignorePriority and queueIfBlocked returns false
\* exactly in those states and is admitted in all others.
C14_HasPriorityAudio ==
  /\ [](hasPriorityAudio <=> SlotPlaying)
  /\ [][\A h \in SfxHandles, options \in {o \in AudioControlOptions : Plain(o)} :
          (calls' # calls /\ playAudio(h, options))
          => (ret' = "false" <=> SlotPlaying)]_vars

\* the priority sound A has reached its end and "ended" has not fired yet:
\* A is in the slot, not paused, hasPriorityAudio() is false and a request
\* for B without priority has just been admitted
C14_Witness ==
  /\ priorityAudioRef = "A" /\ ~audio["A"].paused /\ audio["A"].currentTime = Duration
  /\ audio["A"].onended.priority
  /\ ~hasPriorityAudio
  /\ ret = "pending"
  /\ \E c \in BagToSet(pendingPlay) : c.audioRef = "B" /\ ~c.options.priority

\* the elements playing as background tracks
AudibleTracks == {h \in Handles : audio[h].loop /\ ~audio[h].paused}

\* C15: when no playBackgroundMusic call is in flight, an audible background
\* track is the tracked one; a call for a new track stops the tracked one,
\* and when the call has completed the new track is the tracked one, also
\* when its playback start failed.
C15_NewTrackReplaces ==
  /\ [](pendingBg = {} => AudibleTracks \subseteq {bgMusicRef.audioRef})
  /\ [][\A h \in BgTracks, enableDucking \in BOOLEAN, outcome \in StartOutcomes :
          (calls' # calls /\ playBackgroundMusic(h, Volume08, enableDucking, outcome))
          => /\ (bgMusicRef.audioRef \notin {NoHandle, h}) => audio'[bgMusicRef.audioRef].paused
             /\ outcome = "rejected" => bgMusicRef'.audioRef = h]_vars
  /\ [][\A c \in pendingBg :
          playBackgroundMusicResume(c) => bgMusicRef'.audioRef = c.audioRef]_vars

\* the sounds playing through playAudio with a request of the given priority
Playing(priority) ==
  {h \in Handles : ~audio[h].paused /\ audio[h].onended.set
                   /\ audio[h].onended.priority = priority}

\* C16: a visibility-change event with the page hidden stops every sound
\* that is playing for a non-priority request and leaves every sound that
\* is playing for a priority request as it is.
C16_VisibilityStopsNonPriority ==
  [][(calls' = calls /\ VisibilityHidden)
     => /\ \A h \in Playing(FALSE) : audio'[h].paused
        /\ \A h \in Playing(TRUE) : audio'[h] = audio[h]]_vars

\* the fields of the controller
controller ==
  <<previousAudioRef, priorityAudioRef, bgMusicRef, priorityQueueRef, audioMetadataRef>>

\* C17: no step ends with an error reaching the caller: a playAudio whose
\* audio context or play() fails returns false, a playBackgroundMusic whose
\* play() is rejected returns normally and writes no background state, a
\* stopAudio whose element throws returns normally.
C17_NoErrorPropagates ==
  /\ [](ret # "throws")
  /\ [][\A c \in BagToSet(pendingPlay), outcome \in {"rejected", "contextError"} :
          (calls' = calls /\ playAudioResume(c, outcome)) => ret' = "false"]_vars
  /\ [][\A enableDucking \in BOOLEAN :
          (calls' # calls /\ playBackgroundMusic("M", Volume08, enableDucking, "rejected"))
          => ret' = "none" /\ bgMusicRef' = bgMusicRef]_vars
  /\ [][\A at \in {"pause", "seek"} :
          (calls' # calls /\ stopAudioCallFails("A", at))
          => ret' = "none" /\ UNCHANGED <<previousAudioRef, priorityAudioRef,
                                           bgMusicRef, priorityQueueRef>>]_vars

\* stopAudio(A) was called while A played and the element threw when its
\* position was assigned: A is paused in the middle, the call returned
C17_Witness ==
  /\ audio["A"].paused /\ audio["A"].currentTime = 1 /\ audio["A"].onended.set
  /\ ret = "none"

\* C18: a call of play, playBackgroundMusic, stopAudio or setVolume with a
\* null handle changes no field of the controller and no element, suspends
\* nothing, and play returns false.
C18_NullHandleNoOp ==
  /\ [][\A options \in AudioControlOptions :
          (calls' # calls /\ playAudio(NoHandle, options))
          => /\ ret' = "false"
             /\ UNCHANGED <<controller, audio, pendingPlay, pendingBg, staleVisibility>>]_vars
  /\ [][\A enableDucking \in BOOLEAN, outcome \in StartOutcomes :
          (calls' # calls /\ playBackgroundMusic(NoHandle, Volume08, enableDucking, outcome))
          => /\ ret' = "none"
             /\ UNCHANGED <<controller, audio, pendingPlay, pendingBg, staleVisibility>>]_vars
  /\ [][(calls' # calls /\ (stopAudioCall(NoHandle) \/ setVolume(NoHandle, Volume2)))
          => /\ ret' = "none"
             /\ UNCHANGED <<controller, audio, pendingPlay, pendingBg, staleVisibility>>]_vars

\* the first call of a run was play(null): it returned false and the
\* controller is as constructed
C18_Witness ==
  /\ ret = "false" /\ calls = 1
  /\ NothingTracked /\ audio = [h \in Handles |-> NewAudio]
  /\ pendingPlay = EmptyBag /\ pendingBg = {}

\* C19: the continuation of a playAudio call changes the previous slot only
\* for a request without priority whose playback started: a request with
\* priority leaves it as it is, and so does one whose playback did not start.
C19_PreviousOnlyOrdinarySuccess ==
  [][\A c \in BagToSet(pendingPlay), outcome \in Outcomes :
       (calls' = calls /\ playAudioResume(c, outcome)
        /\ (c.options.priority \/ outcome # "started"))
       => previousAudioRef' = previousAudioRef]_vars

\* the sound in the priority slot plays for a priority request
PrioritySoundAudible ==
  /\ hasPriorityAudio
  /\ audio[priorityAudioRef].onended.set /\ audio[priorityAudioRef].onended.priority

\* C20: the continuation of an admitted request without priority for another
\* handle leaves an audible priority sound as it is (not paused, not reset),
\* whatever its stopPrevious.
C20_OrdinaryKeepsPriority ==
  [][\A c \in BagToSet(pendingPlay), outcome \in Outcomes :
       (/\ PrioritySoundAudible /\ ~c.options.priority
        /\ c.audioRef # priorityAudioRef
        /\ calls' = calls /\ playAudioResume(c, outcome))
       => /\ ~audio'[priorityAudioRef].paused
          /\ audio'[priorityAudioRef].currentTime = audio[priorityAudioRef].currentTime]_vars

\* C21: a playAudio call that is blocked by an audible priority sound returns
\* false and changes nothing, except that with queueIfBlocked it appends the
\* one entry {handle, options} at the tail of the queue.
C21_BlockedChangesOnlyQueue ==
  [][\A h \in SfxHandles, options \in AudioControlOptions :
       (/\ Blocked(options, audio, priorityAudioRef)
        /\ calls' # calls /\ playAudio(h, options))
       => /\ ret' = "false"
          /\ priorityQueueRef' =
               IF options.queueIfBlocked
               THEN priorityQueueRef \o <<[audioRef |-> h, options |-> options]>>
               ELSE priorityQueueRef
          /\ UNCHANGED <<previousAudioRef, priorityAudioRef, bgMusicRef, audio,
                         audioMetadataRef, staleVisibility, pendingPlay, pendingBg>>]_vars

\* two different blocked requests were queued behind an audible priority
\* sound, the second call just returned false
C21_Witness ==
  /\ hasPriorityAudio /\ ret = "false" /\ calls = MaxCalls
  /\ Len(priorityQueueRef) = 2
  /\ priorityQueueRef[1].audioRef = "A" /\ priorityQueueRef[2].audioRef = "B"
  /\ pendingPlay = EmptyBag

\* a playAudio call with priority is suspended between its priority check
\* and its updates of the slots
PriorityCallSuspended == \E c \in BagToSet(pendingPlay) : c.options.priority

\* C22: the priority check of playAudio and the updates that follow it are one
\* step: a request without priority and without ignorePriority is never
\* admitted while a call with priority, made earlier, has not yet updated the
\* priority slot.
C22_AdmissionAtomic ==
  [][\A h \in SfxHandles, options \in AudioControlOptions :
       (/\ ~options.priority /\ ~options.ignorePriority
        /\ PriorityCallSuspended
        /\ calls' # calls /\ playAudio(h, options))
       => ret' = "false"]_vars

\* C23: when no playBackgroundMusic call is suspended, at most one background
\* track is audible and it is the tracked one, also after calls that
\* overlapped.
C23_OverlapOneTrack ==
  pendingBg = {} =>
    /\ Cardinality(AudibleTracks) <= 1
    /\ AudibleTracks \subseteq {bgMusicRef.audioRef}

\* the volume the background track has to have under the given state of the
\* priority system: ducked under an audible priority sound if ducking is enabled
AgreedVolume(bgm, priorityAudible) ==
  IF priorityAudible /\ bgm.enableDucking THEN Times02(bgm.originalVolume)
  ELSE bgm.originalVolume

\* C24: when a playBackgroundMusic call has returned with its track started,
\* the applied and the recorded volume of the track agree with the priority
\* state of that moment, also when a priority sound started or ended while
\* the call was suspended.
C24_BgVolumeAgreesOnReturn ==
  [][\A c \in pendingBg :
       (~c.aborted /\ calls' = calls /\ playBackgroundMusicResume(c))
       => /\ audio'[c.audioRef].volume = AgreedVolume(bgMusicRef', hasPriorityAudio')
          /\ bgMusicRef'.volume = AgreedVolume(bgMusicRef', hasPriorityAudio')]_vars

\* no background track is audible and the state reports isPlaying false
BgSilent == AudibleTracks = {} /\ ~getBackgroundMusicState.isPlaying

\* C25: stopBackgroundMusic leaves no background track audible and isPlaying
\* false, and no continuation or event changes that before another call is
\* made, also when a playBackgroundMusic call is suspended.
C25_StoppedStaysStopped ==
  /\ [][(calls' # calls /\ stopBackgroundMusic) => BgSilent']_vars
  /\ [][(calls' = calls /\ BgSilent) => BgSilent']_vars

\* no handle is tracked in a slot or in the background state
NoSlotTracked ==
  previousAudioRef = NoHandle /\ priorityAudioRef = NoHandle /\ bgMusicRef.audioRef = NoHandle

\* C26: once cleanup has returned and no request was made after it, no
\* handle becomes tracked and no handle starts playing, also when a playAudio
\* or playBackgroundMusic call was suspended at the time of the cleanup.
C26_NothingAfterTeardown ==
  [][calls = MaxTeardownCalls =>
       /\ NoSlotTracked'
       /\ \A h \in Handles : audio[h].paused => audio'[h].paused]_vars

\* C27: while a background track is tracked, originalVolume changes only in
\* the steps that record a requested volume, the continuation of
\* playBackgroundMusic and setBackgroundMusicVolume: ducking and restoring
\* for priority sounds leave it as it is.
C27_OriginalVolumeKept ==
  [][(/\ bgMusicRef'.audioRef # NoHandle
      /\ bgMusicRef'.originalVolume # bgMusicRef.originalVolume)
     => \/ calls' # calls /\ setBackgroundMusicVolume(Volume2)
        \/ \E c \in pendingBg : playBackgroundMusicResume(c)]_vars

\* C28: whenever a background handle is tracked, the volume reported by
\* getBackgroundMusicState is the volume applied to the handle, and it is
\* originalVolume or originalVolume * 0.2.
C28_ReportedVolumeIsApplied ==
  bgMusicRef.audioRef # NoHandle =>
    /\ getBackgroundMusicState.volume = audio[bgMusicRef.audioRef].volume
    /\ getBackgroundMusicState.volume \in
         {bgMusicRef.originalVolume, Times02(bgMusicRef.originalVolume)}

\* C29: when no playBackgroundMusic call is suspended, getBackgroundMusicState
\* reports isPlaying true only if the tracked background handle is playing,
\* also after a playBackgroundMusic call whose playback did not start.
C29_IsPlayingIsTrue ==
  (pendingBg = {} /\ getBackgroundMusicState.isPlaying) =>
    /\ bgMusicRef.audioRef # NoHandle
    /\ ~audio[bgMusicRef.audioRef].paused

\* the handle is stopped: paused at the start
Stopped(a, h) == a[h].paused /\ a[h].currentTime = 0

\* C30: when element.play() is rejected for an admitted request, playAudio
\* returns false and keeps what it did before: for a priority request the
\* former occupant of the priority slot is stopped, the slot holds the new
\* handle and playing background music with ducking enabled is ducked; with
\* stopPrevious the former previous handle is stopped.
C30_NoRollback ==
  [][\A c \in BagToSet(pendingPlay) :
       (calls' = calls /\ playAudioResume(c, "rejected"))
       => /\ ret' = "false"
          /\ c.options.priority =>
               /\ priorityAudioRef' = c.audioRef
               /\ priorityAudioRef # NoHandle => Stopped(audio', priorityAudioRef)
               /\ (bgMusicRef.audioRef # NoHandle /\ bgMusicRef.isPlaying
                     /\ bgMusicRef.enableDucking)
                  => audio'[bgMusicRef.audioRef].volume = Times02(bgMusicRef'.originalVolume)
          /\ (c.options.stopPrevious /\ previousAudioRef # NoHandle)
               => Stopped(audio', previousAudioRef)]_vars

\* the priority request for B was rejected: B holds the slot without
\* playing, the former occupant A is stopped and the music is ducked
C30_Witness ==
  /\ ret = "false" /\ calls = MaxCalls /\ pendingPlay = EmptyBag
  /\ priorityAudioRef = "B" /\ audio["B"].paused /\ audio["B"].onended.priority
  /\ audio["A"].onended.set /\ audio["A"].onended.priority /\ Stopped(audio, "A")
  /\ bgMusicRef.audioRef = "M" /\ ~audio["M"].paused
  /\ audio["M"].volume = Times02(bgMusicRef.originalVolume)

\* the completion event of the sound h is handled in this step by the
\* closure of a request without priority
OrdinaryCompletes(h) ==
  /\ audio[h].onended.set /\ ~audio[h].onended.priority
  /\ calls' = calls
  /\ Ended(h)

\* the background music is one that duckBackgroundMusic and
\* restoreBackgroundMusic act on
BgDuckable ==
  bgMusicRef.audioRef # NoHandle /\ bgMusicRef.isPlaying /\ bgMusicRef.enableDucking

\* the volumes applied to the music handles
MusicVolumes(a) == [h \in MusicHandles |-> a[h].volume]

\* C31: the completion handler of a priority sound clears the priority slot,
\* sets the background volume to originalVolume if ducking is enabled (and
\* leaves it otherwise), and hands at most one queued request, the oldest,
\* to playAudio with its own options; the completion of a sound without
\* priority changes neither the slot, nor the background volume, nor the
\* queue, and starts no request.
C31_CompletionHandler ==
  /\ [][\A h \in SfxHandles : PriorityCompletes(h) =>
          /\ priorityAudioRef' = NoHandle
          /\ MusicVolumes(audio') =
               IF BgDuckable
               THEN [MusicVolumes(audio) EXCEPT ![bgMusicRef.audioRef] = bgMusicRef.originalVolume]
               ELSE MusicVolumes(audio)
          /\ bgMusicRef' = bgMusicRef
          /\ IF priorityQueueRef = <<>>
             THEN priorityQueueRef' = <<>> /\ pendingPlay' = pendingPlay
             ELSE /\ priorityQueueRef' = Tail(priorityQueueRef)
                  /\ pendingPlay' = pendingPlay (+) SetToBag({
                       Suspended(Head(priorityQueueRef).audioRef,
                                 [Head(priorityQueueRef).options EXCEPT !.ignorePriority = TRUE],
                                 TRUE)})]_vars
  /\ [][\A h \in SfxHandles : OrdinaryCompletes(h) =>
          /\ UNCHANGED <<priorityAudioRef, bgMusicRef, priorityQueueRef, pendingPlay>>
          /\ MusicVolumes(audio') = MusicVolumes(audio)]_vars

\* the priority sound A completed while the music was playing with ducking
\* and a request for B was queued: the slot is empty, the music is at
\* originalVolume, the request for B is with playAudio
C31_Witness ==
  /\ priorityAudioRef = NoHandle /\ ret = "none" /\ calls = MaxCalls
  /\ audio["A"].paused /\ audio["A"].currentTime = Duration /\ audio["A"].onended.priority
  /\ BgDuckable /\ ~audio["M"].paused /\ audio["M"].volume = bgMusicRef.originalVolume
  /\ priorityQueueRef = <<>>
  /\ \E c \in BagToSet(pendingPlay) : c.queued /\ c.audioRef = "B"

\* C32: a sound that plays with the completion handler of a priority request
\* is the occupant of the priority slot (a superseded one was stopped), and
\* so a completion event of a priority sound is handled only while that sound
\* is the occupant: it clears no newer sound's slot, restores no volume and
\* starts no queued request while a newer priority sound is audible.
C32_CompletionOfOccupant ==
  /\ [](\A h \in Handles : h \in Playing(TRUE) => priorityAudioRef = h)
  /\ [][\A h \in SfxHandles : PriorityCompletes(h) =>
          /\ priorityAudioRef = h
          /\ PrioritySounds' = {}]_vars

\* B took the slot from the priority sound A and completed: A, superseded,
\* is stopped with its handler still installed, the slot is empty
C32_Witness ==
  /\ priorityAudioRef = NoHandle /\ previousAudioRef = "B"
  /\ audio["B"].paused /\ audio["B"].currentTime = Duration /\ audio["B"].onended.priority
  /\ audio["A"].onended.set /\ audio["A"].onended.priority /\ Stopped(audio, "A")
  /\ audioMetadataRef.currentTime = Duration /\ pendingPlay = EmptyBag

\* C33: the continuation of a request without priority that reaches
\* element.play(): with stopPrevious the handle in the previous slot is
\* stopped (the new handle itself is restarted from the start), without
\* stopPrevious it is left as it is; when playback started, the new handle
\* plays and is in the previous slot.
C33_StopPrevious ==
  [][\A c \in BagToSet(pendingPlay), outcome \in StartOutcomes :
       (~c.options.priority /\ calls' = calls /\ playAudioResume(c, outcome))
       => /\ (c.options.stopPrevious /\ previousAudioRef \notin {NoHandle, c.audioRef})
               => Stopped(audio', previousAudioRef)
          /\ (c.options.stopPrevious /\ previousAudioRef = c.audioRef)
               => audio'[c.audioRef].currentTime = 0
          /\ (~c.options.stopPrevious /\ previousAudioRef \notin {NoHandle, c.audioRef})
               => audio'[previousAudioRef] = audio[previousAudioRef]
          /\ outcome = "started"
               => previousAudioRef' = c.audioRef /\ ~audio'[c.audioRef].paused]_vars

\* B was started without priority and with the previous sound A stopped
C33_Witness ==
  /\ ret = "true" /\ previousAudioRef = "B" /\ priorityAudioRef = NoHandle
  /\ ~audio["B"].paused /\ audio["B"].currentTime = 0
  /\ audio["B"].onended.set /\ ~audio["B"].onended.priority
  /\ audio["A"].onended.set /\ ~audio["A"].onended.priority /\ Stopped(audio, "A")
  /\ audioMetadataRef.isPlaying /\ pendingPlay = EmptyBag /\ calls = 2

\* the requested volumes with what [0,1] leaves of them
Clamped(volume) ==
  CASE volume = VolumeMinus05 -> Zero
    [] volume = Volume2 -> One
    [] OTHER -> volume

\* C34: playBackgroundMusic(handle, volume, enableDucking) whose playback
\* starts sets loop on the handle and applies the clamped volume, times 0.2 if
\* a priority sound is audible and enableDucking is true; its continuation
\* records the handle with isPlaying true, enableDucking as given and
\* originalVolume the clamped volume, ducked or not.
C34_PlayBackgroundMusic ==
  /\ [][\A volume \in PlayVolumes, enableDucking \in BOOLEAN :
          (calls' # calls /\ playBackgroundMusic("M", volume, enableDucking, "started"))
          => /\ audio'["M"].loop /\ ~audio'["M"].paused
             /\ audio'["M"].volume =
                  IF hasPriorityAudio /\ enableDucking
                  THEN Times(Clamped(volume), Fl02) ELSE Clamped(volume)
             /\ \E c \in pendingBg' :
                  /\ c.audioRef = "M" /\ ~c.aborted
                  /\ c.enableDucking = enableDucking
                  /\ c.originalVolume = Clamped(volume)]_vars
  /\ [][\A c \in pendingBg :
          (~c.aborted /\ calls' = calls /\ playBackgroundMusicResume(c))
          => /\ bgMusicRef'.audioRef = c.audioRef
             /\ getBackgroundMusicState'.isPlaying
             /\ getBackgroundMusicState'.enableDucking = c.enableDucking
             /\ getBackgroundMusicState'.originalVolume = c.originalVolume]_vars

\* the music was requested at volume 2 with ducking while the priority sound
\* A was audible: it plays in a loop at 0.2, recorded with originalVolume 1
C34_Witness ==
  /\ hasPriorityAudio /\ priorityAudioRef = "A" /\ pendingBg = {}
  /\ audio["M"].loop /\ ~audio["M"].paused /\ audio["M"].volume = Fl02
  /\ bgMusicRef = [audioRef |-> "M", volume |-> Fl02, isPlaying |-> TRUE,
                   originalVolume |-> One, enableDucking |-> TRUE]

\* the tracked background music is ducked: ducking is enabled and the
\* applied volume is originalVolume * 0.2, below originalVolume
BgDucked ==
  /\ bgMusicRef.audioRef # NoHandle /\ bgMusicRef.enableDucking
  /\ audio[bgMusicRef.audioRef].volume = Times02(bgMusicRef.originalVolume)
  /\ audio[bgMusicRef.audioRef].volume # bgMusicRef.originalVolume

\* C35: setBackgroundMusicDucking(enabled) acts on the applied volume at once:
\* switched off while the music is ducked, the applied volume becomes
\* originalVolume; switched on while a priority sound is audible, it becomes
\* originalVolume * 0.2; with no priority sound audible it does not change.
C35_DuckingSwitch ==
  [][\A enabled \in BOOLEAN :
       (/\ bgMusicRef.audioRef # NoHandle
        /\ calls' # calls /\ setBackgroundMusicDucking(enabled))
       => /\ (~enabled /\ BgDucked)
               => audio'[bgMusicRef.audioRef].volume = bgMusicRef.originalVolume
          /\ (enabled /\ ~bgMusicRef.enableDucking /\ hasPriorityAudio)
               => audio'[bgMusicRef.audioRef].volume = Times02(bgMusicRef.originalVolume)
          /\ ~hasPriorityAudio
               => audio'[bgMusicRef.audioRef].volume = audio[bgMusicRef.audioRef].volume]_vars

\* C36: setBackgroundMusicVolume(v) with a tracked background handle sets
\* originalVolume to v clamped to [0,1] and applies originalVolume * 0.2 if a
\* priority sound is audible and ducking is enabled, originalVolume otherwise;
\* with no tracked handle it changes nothing.
C36_SetBackgroundMusicVolume ==
  [][\A volume \in SetVolumes :
       (calls' # calls /\ setBackgroundMusicVolume(volume))
       => IF bgMusicRef.audioRef = NoHandle
          THEN UNCHANGED <<controller, audio, pendingPlay, pendingBg, staleVisibility>>
          ELSE /\ bgMusicRef'.originalVolume = Clamped(volume)
               /\ audio'[bgMusicRef.audioRef].volume =
                    IF hasPriorityAudio /\ bgMusicRef.enableDucking
                    THEN Times(Clamped(volume), Fl02) ELSE Clamped(volume)]_vars

\* the volume of the playing music was set to 0.5 while the priority sound A
\* was audible: it plays at 0.5 * 0.2, recorded with originalVolume 0.5
C36_Witness ==
  /\ hasPriorityAudio /\ priorityAudioRef = "A" /\ calls = MaxMusicCalls
  /\ bgMusicRef.audioRef = "M" /\ bgMusicRef.isPlaying /\ bgMusicRef.enableDucking
  /\ bgMusicRef.originalVolume = Volume05
  /\ ~audio["M"].paused /\ audio["M"].volume = Times(Volume05, Fl02)

\* the requests in the queue
QueueEntries == {priorityQueueRef[i] : i \in 1..Len(priorityQueueRef)}

\* C37: every entry of the queue is a request without priority, without
\* ignorePriority and with queueIfBlocked; an entry is added only by a call
\* made while a priority sound is audible, and entries leave the queue only
\* in the completion handler of a priority sound or in cleanup.
C37_QueueEntries ==
  /\ [](\A entry \in QueueEntries :
          /\ ~entry.options.priority /\ ~entry.options.ignorePriority
          /\ entry.options.queueIfBlocked)
  /\ [][Len(priorityQueueRef') > Len(priorityQueueRef)
          => calls' # calls /\ ret' = "false" /\ hasPriorityAudio]_vars
  /\ [][Len(priorityQueueRef') < Len(priorityQueueRef)
          => \/ \E h \in SfxHandles : PriorityCompletes(h)
             \/ calls' # calls /\ cleanup]_vars

\* one request was queued behind the audible priority sound A
C37_Witness ==
  /\ hasPriorityAudio /\ priorityAudioRef = "A" /\ ret = "false"
  /\ Len(priorityQueueRef) = 1 /\ priorityQueueRef[1].audioRef = "B"
  /\ priorityQueueRef[1].options.queueIfBlocked
  /\ priorityQueueRef[1].options.stopPrevious
  /\ pendingPlay = EmptyBag /\ calls = 2

\* C38: an admitted request whose playback the device starts plays at the
\* requested volume clamped to [0,1] and playAudio returns true, also for a
\* volume below 0 or above 1; setVolume(handle, v) applies v clamped to [0,1].
C38_VolumeClamped ==
  /\ [][\A c \in BagToSet(pendingPlay) :
          (calls' = calls /\ playAudioResume(c, "started"))
          => /\ ret' = "true"
             /\ ~audio'[c.audioRef].paused
             /\ audio'[c.audioRef].volume = Clamped(c.options.volume)]_vars
  /\ [][\A h \in SfxHandles, volume \in PlayVolumes :
          (calls' # calls /\ setVolume(h, volume))
          => audio'[h].volume = Clamped(volume)]_vars

\* the controller has a listener registered for the handle: the metadata
\* listeners of configureAudio on the element, or a visibilitychange listener
\* on the document, of the installed closure or of a replaced one
Listening(a, stale, h) ==
  \/ a[h].listeners
  \/ a[h].onended.set /\ a[h].onended.visibility
  \/ h \in stale

\* C39: stopAudio detaches every listener the controller installed for the
\* handle, and cleanup those of every handle: none is registered afterwards.
C39_ListenersDetached ==
  /\ [][\A h \in SfxHandles :
          (calls' # calls /\ stopAudioCall(h))
          => ~Listening(audio', staleVisibility', h)]_vars
  /\ [][(calls' # calls /\ cleanup)
          => \A h \in Handles : ~Listening(audio', staleVisibility', h)]_vars

====
